---- MODULE Spec2Model ----
(***************************************************************************)
(* ZVerse: the ZVerseGroups registry contract (contracts/ZVerseGroups.sol) *)
(* and the client's envelope codec (ui/src/utils/messages.ts).             *)
(*                                                                         *)
(* Group ids and message indices are 0-based as in the contract; the       *)
(* arrays are TLA+ sequences, so element i of an array is seq[i + 1].      *)
(***************************************************************************)
EXTENDS Integers, Sequences, FiniteSets, TLC

(***************************************************************************)
(* Bounds of the model.                                                    *)
(***************************************************************************)
MaxGroups == 2
MaxMessages == 2
MaxEvents == 5
MaxTime == 2

(***************************************************************************)
(* Principals.  The externally owned accounts are the signers of the test  *)
(* suite; This is address(this), the contract's own address, which the     *)
(* contract grants on every handle it keeps (FHE.allowThis).               *)
(***************************************************************************)
Accounts == {"alice", "bob", "carol"}
This == "contract"
Names == {"", "Alpha"}
GroupIds == 0 .. MaxGroups

(***************************************************************************)
(* Revert reasons of the contract.                                         *)
(***************************************************************************)
InvalidGroup == "Invalid group"
NameRequired == "Name required"
AlreadyMember == "Already a member"
NotMember == "Join group first"
InvalidProof == "Invalid input proof"
IndexOutOfRange == "Panic(0x32)"

VARIABLES
    groups,         \* Group[] _groups
    groupMessages,  \* mapping(uint256 => Message[]) _groupMessages
    acl,            \* the ACL of the encryption service: {<<handle, account>>}
    events,         \* the contract's event log, read by its indexed groupId topic
    now,            \* block.timestamp of the block being built
    last,           \* outcome of the last transaction
    codec,          \* one use of the envelope codec: its inputs and results
    client,         \* one browser running GroupApp: its React state and handlers
    ciphertexts     \* the encryption service: the clear value behind each input

registry == <<groups, groupMessages, acl, events, now, last>>

vars == <<groups, groupMessages, acl, events, now, last, codec, client, ciphertexts>>

(***************************************************************************)
(* Handles.  A handle is an opaque reference to a ciphertext.              *)
(*  - FHE.asEaddress(groupAddress): the handle of the trivial encryption   *)
(*    of groupAddress = keccak256(prevrandao, timestamp, msg.sender,       *)
(*    groupId); the hash is kept as the tuple of its inputs (injective).   *)
(*  - FHE.fromExternal(input, proof): the proof binds the input to the     *)
(*    contract and to the user that produced it; the returned handle is    *)
(*    the input handle itself, whatever group it is sent to.               *)
(***************************************************************************)
InputNumbers == {1}

ExternalInputs == [user : Accounts, n : InputNumbers]

asEaddress(timestamp, sender, groupId) ==
    [kind |-> "eaddress", user |-> sender, n |-> groupId, t |-> timestamp]

ProofValid(input, sender) == input.user = sender

(***************************************************************************)
(* What a sender may submit: any input it produced itself, fresh or        *)
(* already submitted (to this or to another group), or an input produced   *)
(* by someone else, whose proof does not verify for this sender.           *)
(***************************************************************************)
Submittable(sender) ==
    {i \in ExternalInputs : i.user = sender}
        \cup {[user |-> CHOOSE a \in Accounts : a # sender, n |-> 1]}

fromExternal_Other(input) ==
    [kind |-> "euint256", user |-> input.user, n |-> input.n + 1, t |-> 0]

fromExternal(input) ==
    [kind |-> "euint256", user |-> input.user, n |-> input.n, t |-> 0]

isAllowed(handle, account) == <<handle, account>> \in acl

(***************************************************************************)
(* FHE.allow / FHE.allowThis: the pairs are added to the persistent grants *)
(* of the ACL; a pair that is already there stays, and the call does not   *)
(* revert on it.  The ACL has no call that removes a pair.                 *)
(***************************************************************************)
allow_Replace(granted, pairs) == pairs

allow(granted, pairs) == granted \cup pairs

(***************************************************************************)
(* validGroup modifier.                                                    *)
(***************************************************************************)
validGroup(groupId) == groupId < Len(groups)

Group(groupId) == groups[groupId + 1]

MessageAt(groupId, index) == groupMessages[groupId][index + 1]

ExistingGroups == {g \in GroupIds : validGroup(g)}

SeqRange(s) == {s[i] : i \in 1 .. Len(s)}

(***************************************************************************)
(* Outcome of a transaction: err = "" when it committed.                   *)
(***************************************************************************)
Outcome(op, err, ret) == [op |-> op, err |-> err, ret |-> ret]

Revert_DropsGrants(op, reason) ==
    /\ last' = Outcome(op, reason, 0)
    /\ acl' = {}
    /\ UNCHANGED <<groups, groupMessages, events, now>>

Revert(op, reason) ==
    /\ last' = Outcome(op, reason, 0)
    /\ UNCHANGED <<groups, groupMessages, acl, events, now>>

Emit_None(groupId, e) == events

Emit(groupId, e) == [events EXCEPT ![groupId] = Append(@, e)]

EventCount == LET n[g \in -1 .. MaxGroups] ==
                      IF g = -1 THEN 0 ELSE n[g - 1] + Len(events[g])
              IN n[MaxGroups]

Deployed ==
    /\ groups = <<>>
    /\ groupMessages = [g \in GroupIds |-> <<>>]
    /\ acl = {}
    /\ events = [g \in GroupIds |-> <<>>]
    /\ now = 1
    /\ last = Outcome("deploy", "", 0)

CodecIdle ==
    [pc |-> "idle", message |-> <<>>, groupKey |-> [form |-> "0x", bytes |-> <<>>],
     cipher |-> [err |-> "", val |-> [neg |-> FALSE, mag |-> <<>>]],
     plain |-> [err |-> "", val |-> <<>>]]

NoKey == [form |-> "null", bytes |-> <<>>]

NoTx == [groupId |-> 0, input |-> [user |-> "", n |-> 0]]

NothingLoaded == [groupId |-> -1, rows |-> <<>>]

ClientIdle ==
    [address |-> "", selectedGroupId |-> -1, members |-> <<>>, groupKey |-> NoKey,
     messageText |-> <<>>, messages |-> <<>>, status |-> "", sending |-> FALSE,
     decoding |-> FALSE, loading |-> {}, loaded |-> NothingLoaded,
     pc |-> "idle", sendPc |-> "idle",
     cipherValue |-> [neg |-> FALSE, mag |-> <<>>], tx |-> NoTx,
     request |-> {}, batch |-> <<>>, batchKey |-> NoKey]

NoCiphertexts == [input \in {} |-> 0]

Init == Deployed /\ codec = CodecIdle /\ client = ClientIdle /\ ciphertexts = NoCiphertexts

(***************************************************************************)
(* Events.                                                                 *)
(***************************************************************************)
GroupCreated(groupId, name, creator, encryptedKey) ==
    [event |-> "GroupCreated", groupId |-> groupId, name |-> name,
     creator |-> creator, encryptedKey |-> encryptedKey]

GroupJoined(groupId, member) ==
    [event |-> "GroupJoined", groupId |-> groupId, member |-> member]

MessageSent(groupId, sender, encryptedContent) ==
    [event |-> "MessageSent", groupId |-> groupId, sender |-> sender,
     encryptedContent |-> encryptedContent]

(***************************************************************************)
(* createGroup(name)                                                       *)
(***************************************************************************)
NameOk_Any(name) == TRUE

NameOk(name) == name # ""

NewGroup(name, encryptedKey, sender) ==
    [name |-> name,
     encryptedKey |-> encryptedKey,
     creator |-> sender,
     members |-> <<sender>>,
     isMember |-> [a \in Accounts |-> a = sender]]

CreateAllowed_ThisOnly(encryptedKey, sender) == {<<encryptedKey, This>>}

CreateAllowed(encryptedKey, sender) ==
    {<<encryptedKey, This>>, <<encryptedKey, sender>>}

createGroup(sender, name) ==
    IF ~NameOk(name)
    THEN Revert("createGroup", NameRequired)
    ELSE LET groupId == Len(groups)
             encryptedKey == asEaddress(now, sender, groupId)
         IN /\ Len(groups) < MaxGroups
            /\ EventCount < MaxEvents
            /\ groups' = Append(groups, NewGroup(name, encryptedKey, sender))
            /\ acl' = allow(acl, CreateAllowed(encryptedKey, sender))
            /\ events' = Emit(groupId, GroupCreated(groupId, name, sender, encryptedKey))
            /\ last' = Outcome("createGroup", "", groupId)
            /\ UNCHANGED <<groupMessages, now>>

(***************************************************************************)
(* joinGroup(groupId)                                                      *)
(***************************************************************************)
\* Group storage group = _groups[groupId]: the element the writes go to
GroupSlot_First(groupId) == 1

GroupSlot(groupId) == groupId + 1

JoinGuard_None(group, sender) == TRUE

JoinGuard_CreatorOnly(group, sender) == ~group.isMember[sender] /\ sender = group.creator

JoinGuard(group, sender) == ~group.isMember[sender]

JoinMembers_Prepend(group, sender) ==
    [group EXCEPT !.isMember[sender] = TRUE,
                  !.members = <<sender>> \o group.members]

JoinMembers_NoFlag(group, sender) ==
    [group EXCEPT !.members = Append(group.members, sender)]

JoinMembers_TakesOver(group, sender) ==
    [group EXCEPT !.isMember[sender] = TRUE,
                  !.members = Append(group.members, sender),
                  !.creator = sender]

JoinMembers(group, sender) ==
    [group EXCEPT !.isMember[sender] = TRUE,
                  !.members = Append(group.members, sender)]

JoinAllowed_KeyOnly(group, messages, sender) == {<<group.encryptedKey, sender>>}

JoinAllowed_SkipLast(group, messages, sender) ==
    {<<group.encryptedKey, sender>>}
        \cup {<<messages[i].encryptedContent, sender>> : i \in 1 .. Len(messages) - 1}

JoinAllowed(group, messages, sender) ==
    {<<group.encryptedKey, sender>>}
        \cup {<<messages[i].encryptedContent, sender>> : i \in 1 .. Len(messages)}

joinGroup(sender, groupId) ==
    IF ~validGroup(groupId)
    THEN Revert("joinGroup", InvalidGroup)
    ELSE IF ~JoinGuard(Group(groupId), sender)
    THEN Revert("joinGroup", AlreadyMember)
    ELSE /\ EventCount < MaxEvents
         /\ groups' = [groups EXCEPT ![GroupSlot(groupId)] = JoinMembers(@, sender)]
         /\ acl' = allow(acl, JoinAllowed(Group(groupId), groupMessages[groupId], sender))
         /\ events' = Emit(groupId, GroupJoined(groupId, sender))
         /\ last' = Outcome("joinGroup", "", 0)
         /\ UNCHANGED <<groupMessages, now>>

(***************************************************************************)
(* sendMessage(groupId, encryptedMessage, inputProof)                      *)
(***************************************************************************)
SendGuard_None(group, sender) == TRUE

SendGuard_NotCreator(group, sender) == sender # group.creator

SendGuard(group, sender) == group.isMember[sender]

SendAllowed_CreatorOnly(storedMessage, members) ==
    {<<storedMessage, This>>, <<storedMessage, members[1]>>}

SendAllowed_SkipFirst(storedMessage, members) ==
    {<<storedMessage, This>>}
        \cup {<<storedMessage, members[i]>> : i \in 2 .. Len(members)}

SendAllowed(storedMessage, members) ==
    {<<storedMessage, This>>}
        \cup {<<storedMessage, members[i]>> : i \in 1 .. Len(members)}

NewMessage_Unstamped(sender, storedMessage, timestamp) ==
    [sender |-> sender, encryptedContent |-> storedMessage, timestamp |-> 0]

NewMessage(sender, storedMessage, timestamp) ==
    [sender |-> sender, encryptedContent |-> storedMessage, timestamp |-> timestamp]

\* _groupMessages[groupId].push(message)
push_Front(messages, message) == <<message>> \o messages

push(messages, message) == Append(messages, message)

sendMessage(sender, groupId, encryptedMessage) ==
    IF ~validGroup(groupId)
    THEN Revert("sendMessage", InvalidGroup)
    ELSE IF ~SendGuard(Group(groupId), sender)
    THEN Revert("sendMessage", NotMember)
    ELSE IF ~ProofValid(encryptedMessage, sender)
    THEN Revert("sendMessage", InvalidProof)
    ELSE LET storedMessage == fromExternal(encryptedMessage)
         IN /\ Len(groupMessages[groupId]) < MaxMessages
            /\ EventCount < MaxEvents
            /\ acl' = allow(acl, SendAllowed(storedMessage, Group(groupId).members))
            /\ groupMessages' = [groupMessages EXCEPT ![groupId] =
                   push(@, NewMessage(sender, storedMessage, now))]
            /\ events' = Emit(groupId, MessageSent(groupId, sender, storedMessage))
            /\ last' = Outcome("sendMessage", "", 0)
            /\ UNCHANGED <<groups, now>>

(***************************************************************************)
(* The ledger's clock: block.timestamp never goes backwards.               *)
(***************************************************************************)
Tick ==
    /\ now < MaxTime
    /\ now' = now + 1
    /\ UNCHANGED <<groups, groupMessages, acl, events, last, codec, client, ciphertexts>>

(***************************************************************************)
(* A transaction of an account that is not the browser of the model: the   *)
(* contract call alone.                                                    *)
(***************************************************************************)
CreateGroupTx(sender, name) == createGroup(sender, name) /\ UNCHANGED <<codec, client, ciphertexts>>

JoinGroupTx(sender, groupId) == joinGroup(sender, groupId) /\ UNCHANGED <<codec, client, ciphertexts>>

SendMessageTx(sender, groupId, input) ==
    sendMessage(sender, groupId, input) /\ UNCHANGED <<codec, client, ciphertexts>>

Next ==
    \/ \E sender \in Accounts, name \in Names : CreateGroupTx(sender, name)
    \/ \E sender \in Accounts, groupId \in GroupIds : JoinGroupTx(sender, groupId)
    \/ \E sender \in Accounts, groupId \in GroupIds :
           \E input \in Submittable(sender) : SendMessageTx(sender, groupId, input)

Spec == Init /\ [][Next]_vars

ClockNext == Next \/ Tick

ClockSpec == Init /\ [][ClockNext]_vars

(***************************************************************************)
(* Read operations.  A view returns [err, val]: err = "" and the value,    *)
(* or the revert reason and the zero value of the return type.             *)
(***************************************************************************)
Returned(val) == [err |-> "", val |-> val]

Reverted(reason, zero) == [err |-> reason, val |-> zero]

getGroupCount == Returned(Len(groups))

getGroup(groupId) ==
    IF ~validGroup(groupId)
    THEN Reverted(InvalidGroup, <<>>)
    ELSE Returned(<<Group(groupId).name, Group(groupId).encryptedKey,
                    Group(groupId).creator, Len(Group(groupId).members)>>)

getGroupMembers(groupId) ==
    IF ~validGroup(groupId)
    THEN Reverted(InvalidGroup, <<>>)
    ELSE Returned(Group(groupId).members)

isGroupMember(groupId, account) ==
    IF ~validGroup(groupId)
    THEN Reverted(InvalidGroup, FALSE)
    ELSE Returned(Group(groupId).isMember[account])

getGroupKey(groupId) ==
    IF ~validGroup(groupId)
    THEN Reverted(InvalidGroup, <<>>)
    ELSE Returned(Group(groupId).encryptedKey)

getMessageCount(groupId) ==
    IF ~validGroup(groupId)
    THEN Reverted(InvalidGroup, 0)
    ELSE Returned(Len(groupMessages[groupId]))

getMessage_IndexFirst(groupId, index) ==
    IF index >= Len(groupMessages[groupId])
    THEN Reverted(IndexOutOfRange, <<>>)
    ELSE IF ~validGroup(groupId)
    THEN Reverted(InvalidGroup, <<>>)
    ELSE Returned(<<MessageAt(groupId, index).sender,
                    MessageAt(groupId, index).encryptedContent,
                    MessageAt(groupId, index).timestamp>>)

getMessage(groupId, index) ==
    IF ~validGroup(groupId)
    THEN Reverted(InvalidGroup, <<>>)
    ELSE IF index >= Len(groupMessages[groupId])
    THEN Reverted(IndexOutOfRange, <<>>)
    ELSE Returned(<<MessageAt(groupId, index).sender,
                    MessageAt(groupId, index).encryptedContent,
                    MessageAt(groupId, index).timestamp>>)

canDecryptGroupKey(groupId, account) ==
    IF ~validGroup(groupId)
    THEN Reverted(InvalidGroup, FALSE)
    ELSE Returned(isAllowed(Group(groupId).encryptedKey, account))

canDecryptMessage_Lenient(groupId, index, account) ==
    IF ~validGroup(groupId)
    THEN Reverted(InvalidGroup, FALSE)
    ELSE IF index >= Len(groupMessages[groupId])
    THEN Returned(FALSE)
    ELSE Returned(isAllowed(MessageAt(groupId, index).encryptedContent, account))

canDecryptMessage(groupId, index, account) ==
    IF ~validGroup(groupId)
    THEN Reverted(InvalidGroup, FALSE)
    ELSE IF index >= Len(groupMessages[groupId])
    THEN Reverted(IndexOutOfRange, FALSE)
    ELSE Returned(isAllowed(MessageAt(groupId, index).encryptedContent, account))

(***************************************************************************)
(* Vocabulary of the properties.                                           *)
(***************************************************************************)
Members(groupId) == SeqRange(Group(groupId).members)

MessageIndices(groupId) == 0 .. Len(groupMessages[groupId]) - 1

MessageHandles(groupId) ==
    {MessageAt(groupId, i).encryptedContent : i \in MessageIndices(groupId)}

Committed == last.err = ""

(***************************************************************************)
(* The envelope codec (ui/src/utils/messages.ts).                          *)
(*                                                                         *)
(* A byte string (Uint8Array, or the hex string that spells it) is a       *)
(* sequence of 0..255.  A bigint is its sign and its magnitude in base 256 *)
(* without leading zeros, which is what BigInt(hex) and toBeHex compute.   *)
(* A JavaScript string is the sequence of its code points; a lone          *)
(* surrogate code unit is kept as its own value in 0xD800..0xDFFF.         *)
(***************************************************************************)
KEY_BYTES == 32

MAX_MESSAGE_BYTES == KEY_BYTES - 1

ADDRESS_BYTES == 20

Zeros(n) == [i \in 1 .. n |-> 0]

RECURSIVE StripZeros(_)
StripZeros(bytes) ==
    IF bytes # <<>> /\ Head(bytes) = 0 THEN StripZeros(Tail(bytes)) ELSE bytes

RECURSIVE BitXor(_, _)
BitXor(a, b) ==
    IF a = 0 THEN b
    ELSE IF b = 0 THEN a
    ELSE 2 * BitXor(a \div 2, b \div 2) + ((a + b) % 2)

\* BigInt(hexString)
BigIntOfHex(bytes) == [neg |-> FALSE, mag |-> StripZeros(bytes)]

\* ethers.toBeHex(value): the shortest whole-byte form, "0x00" for zero;
\* a negative value is refused.
toBeHex(value) ==
    IF value.neg THEN [err |-> "NUMERIC_FAULT", val |-> <<>>]
    ELSE [err |-> "", val |-> IF value.mag = <<>> THEN <<0>> ELSE value.mag]

\* ethers.toBeHex(value, width) and ethers.zeroPadValue(data, width): left
\* padding with zeros; data longer than the width is refused.
zeroPadValue(bytes, width) ==
    IF Len(bytes) > width THEN [err |-> "BUFFER_OVERRUN", val |-> <<>>]
    ELSE [err |-> "", val |-> Zeros(width - Len(bytes)) \o bytes]

(***************************************************************************)
(* ethers.keccak256.  The hash itself is not computed: it is replaced by a *)
(* fixed function of the input bytes (their length included) to 32 bytes.  *)
(***************************************************************************)
RECURSIVE Absorb(_, _)
Absorb(h, bytes) ==
    IF bytes = <<>> THEN h
    ELSE Absorb(((h * 31) + Head(bytes) + 1) % 65521, Tail(bytes))

keccak256(bytes) ==
    LET h == Absorb(Len(bytes) + 7, bytes)
    IN [i \in 1 .. KEY_BYTES |-> ((h + 13) * (2 * i + 1) + (h \div 256) + (i * i)) % 256]

(***************************************************************************)
(* The group key as the client holds it: a string that either starts with  *)
(* "0x" and spells bytes, or is the decimal numeral of a number.           *)
(***************************************************************************)
HexString(bytes) == [form |-> "0x", bytes |-> bytes]

DecString(mag) == [form |-> "dec", bytes |-> mag]

deriveKeyBytes(groupKey) ==
    LET normalized == IF groupKey.form = "0x"
                      THEN groupKey.bytes
                      ELSE toBeHex([neg |-> FALSE, mag |-> groupKey.bytes]).val
    IN keccak256(normalized)

normalizeGroupKey(value) == HexString(zeroPadValue(toBeHex(value).val, ADDRESS_BYTES).val)

(***************************************************************************)
(* TextEncoder.encode: UTF-8, a lone surrogate encoded as U+FFFD.          *)
(***************************************************************************)
IsSurrogate(cp) == cp >= 55296 /\ cp <= 57343

Utf8OfCodePoint(c) ==
    LET cp == IF IsSurrogate(c) THEN 65533 ELSE c
    IN IF cp < 128 THEN <<cp>>
       ELSE IF cp < 2048 THEN <<192 + (cp \div 64), 128 + (cp % 64)>>
       ELSE IF cp < 65536
       THEN <<224 + (cp \div 4096), 128 + ((cp \div 64) % 64), 128 + (cp % 64)>>
       ELSE <<240 + (cp \div 262144), 128 + ((cp \div 4096) % 64),
              128 + ((cp \div 64) % 64), 128 + (cp % 64)>>

RECURSIVE TextEncode(_)
TextEncode(str) ==
    IF str = <<>> THEN <<>> ELSE Utf8OfCodePoint(Head(str)) \o TextEncode(Tail(str))

(***************************************************************************)
(* new TextDecoder().decode: the UTF-8 decoder of the Encoding Standard,   *)
(* not fatal (a malformed sequence decodes to U+FFFD) and not ignoring the *)
(* byte order mark (a leading EF BB BF is dropped).                        *)
(***************************************************************************)
RECURSIVE Utf8Decode(_, _, _, _, _, _)
Utf8Decode(bytes, cp, seen, needed, lower, upper) ==
    IF bytes = <<>> THEN (IF needed # 0 THEN <<65533>> ELSE <<>>)
    ELSE LET b == Head(bytes)
             rest == Tail(bytes)
         IN IF needed = 0
            THEN IF b <= 127 THEN <<b>> \o Utf8Decode(rest, 0, 0, 0, 128, 191)
                 ELSE IF b >= 194 /\ b <= 223
                 THEN Utf8Decode(rest, b % 32, 0, 1, 128, 191)
                 ELSE IF b >= 224 /\ b <= 239
                 THEN Utf8Decode(rest, b % 16, 0, 2,
                                 IF b = 224 THEN 160 ELSE 128,
                                 IF b = 237 THEN 159 ELSE 191)
                 ELSE IF b >= 240 /\ b <= 244
                 THEN Utf8Decode(rest, b % 8, 0, 3,
                                 IF b = 240 THEN 144 ELSE 128,
                                 IF b = 244 THEN 143 ELSE 191)
                 ELSE <<65533>> \o Utf8Decode(rest, 0, 0, 0, 128, 191)
            ELSE IF b < lower \/ b > upper
            THEN <<65533>> \o Utf8Decode(bytes, 0, 0, 0, 128, 191)
            ELSE IF seen + 1 = needed
            THEN <<cp * 64 + (b % 64)>> \o Utf8Decode(rest, 0, 0, 0, 128, 191)
            ELSE Utf8Decode(rest, cp * 64 + (b % 64), seen + 1, needed, 128, 191)

TextDecode(bytes) ==
    IF Len(bytes) >= 3 /\ SubSeq(bytes, 1, 3) = <<239, 187, 191>>
    THEN Utf8Decode(SubSeq(bytes, 4, Len(bytes)), 0, 0, 0, 128, 191)
    ELSE Utf8Decode(bytes, 0, 0, 0, 128, 191)

(***************************************************************************)
(* sealMessage(message, groupKey) and openMessage(cipherValue, groupKey).  *)
(* A result is [err, val]: err = "" and the value, or the error thrown.    *)
(***************************************************************************)
MessageTooLong == "Message too long. Limit 31 bytes"

XorBytes(payload, keyBytes) ==
    [i \in 1 .. Len(payload) |-> BitXor(payload[i], keyBytes[i])]

LengthLimit_Inclusive(encoded) == Len(encoded) >= MAX_MESSAGE_BYTES

LengthLimit(encoded) == Len(encoded) > MAX_MESSAGE_BYTES

Payload(encoded) ==
    <<Len(encoded)>> \o encoded \o Zeros(KEY_BYTES - 1 - Len(encoded))

sealMessage_Truncating(message, groupKey) ==
    LET keyBytes == deriveKeyBytes(groupKey)
        encoded == TextEncode(message)
        kept == SubSeq(encoded, 1, IF LengthLimit(encoded) THEN MAX_MESSAGE_BYTES
                                   ELSE Len(encoded))
    IN [err |-> "", val |-> BigIntOfHex(XorBytes(Payload(kept), keyBytes))]

sealMessage(message, groupKey) ==
    LET keyBytes == deriveKeyBytes(groupKey)
        encoded == TextEncode(message)
    IN IF LengthLimit(encoded)
       THEN [err |-> MessageTooLong, val |-> [neg |-> FALSE, mag |-> <<>>]]
       ELSE [err |-> "", val |-> BigIntOfHex(XorBytes(Payload(encoded), keyBytes))]

PlainSlice(plain) == SubSeq(plain, 2, IF 1 + plain[1] > Len(plain) THEN Len(plain) ELSE 1 + plain[1])

openMessage(cipherValue, groupKey) ==
    LET keyBytes == deriveKeyBytes(groupKey)
        hex == toBeHex(cipherValue)
        padded == zeroPadValue(hex.val, KEY_BYTES)
    IN IF hex.err # "" THEN [err |-> hex.err, val |-> <<>>]
       ELSE IF padded.err # "" THEN [err |-> padded.err, val |-> <<>>]
       ELSE [err |-> "", val |-> TextDecode(PlainSlice(XorBytes(padded.val, keyBytes)))]

(***************************************************************************)
(* One use of the codec: a client seals a message with a group key, and a  *)
(* client holding the same key opens the cipher value.                     *)
(***************************************************************************)
MaxChars == 2

Chars == {97, 233, 8364, 65279, 128512, 55296}

Fill == {0, 25, 28, 29, 30, 31}

Texts == UNION {[1 .. n -> Chars] : n \in 0 .. MaxChars}

Messages == {t \o [i \in 1 .. n |-> 97] : t \in Texts, n \in Fill}

SecretValues == {<<>>, <<17>>, <<1, 0>>, <<222, 173, 190, 239>>}

GroupKeys == {normalizeGroupKey([neg |-> FALSE, mag |-> v]) : v \in SecretValues}
                 \cup {DecString(v) : v \in SecretValues}

(***************************************************************************)
(* Cipher values that reach openMessage from elsewhere than sealMessage: a *)
(* bigint of any sign and magnitude.  FirstBytes are the leading bytes of  *)
(* the 32-byte values, chosen to give length bytes on both sides of 31     *)
(* under the key streams of GroupKeys.                                     *)
(***************************************************************************)
FirstBytes == {1, 32, 150, 255}

CipherValues ==
    {[neg |-> FALSE, mag |-> <<>>],
     [neg |-> FALSE, mag |-> <<5>>],
     [neg |-> TRUE, mag |-> <<1>>],
     [neg |-> FALSE, mag |-> <<1>> \o Zeros(KEY_BYTES)]}
        \cup {[neg |-> FALSE, mag |-> <<b>> \o [i \in 1 .. KEY_BYTES - 1 |-> fill]] :
                  b \in FirstBytes, fill \in {0, 97, 200}}

CodecInit ==
    /\ Deployed
    /\ client = ClientIdle
    /\ ciphertexts = NoCiphertexts
    /\ \/ \E message \in Messages, groupKey \in GroupKeys :
              codec = [CodecIdle EXCEPT !.pc = "start", !.message = message,
                                        !.groupKey = groupKey]
       \/ \E cipherValue \in CipherValues, groupKey \in GroupKeys :
              codec = [CodecIdle EXCEPT !.pc = "received", !.cipher.val = cipherValue,
                                        !.groupKey = groupKey]

Seal ==
    /\ codec.pc = "start"
    /\ codec' = [codec EXCEPT !.pc = "sealed",
                              !.cipher = sealMessage(codec.message, codec.groupKey)]
    /\ UNCHANGED <<registry, client, ciphertexts>>

Open ==
    /\ codec.pc \in {"sealed", "received"}
    /\ codec.cipher.err = ""
    /\ codec' = [codec EXCEPT !.pc = IF codec.pc = "sealed" THEN "opened" ELSE "decoded",
                              !.plain = openMessage(codec.cipher.val, codec.groupKey)]
    /\ UNCHANGED <<registry, client, ciphertexts>>

CodecNext == Seal \/ Open

CodecSpec == CodecInit /\ [][CodecNext]_vars

(***************************************************************************)
(* The browser client (GroupApp).  client holds the React state of one     *)
(* browser and the place each of its asynchronous handlers has reached.    *)
(* null is NoKey for the group key, -1 for the selected group, "" for the  *)
(* status line and Undecoded for a message's decoded text.                 *)
(***************************************************************************)
Undecoded == [kind |-> "null", text |-> <<>>]

Decoded(text) == [kind |-> "string", text |-> text]

\* the string 'Unable to decode'
UnableToDecode ==
    Decoded(<<85, 110, 97, 98, 108, 101, 32, 116, 111, 32, 100, 101, 99, 111, 100, 101>>)

\* !m.decoded: null and the empty string are falsy
NotDecoded(m) == m.decoded.kind = "null" \/ m.decoded.text = <<>>

\* String.prototype.trim
IsWhiteSpace(c) == c \in {9, 10, 11, 12, 13, 32, 160, 65279}

RECURSIVE TrimStart(_)
TrimStart(str) ==
    IF str # <<>> /\ IsWhiteSpace(Head(str)) THEN TrimStart(Tail(str)) ELSE str

Reversed(str) == [i \in 1 .. Len(str) |-> str[Len(str) + 1 - i]]

trim(str) == Reversed(TrimStart(Reversed(TrimStart(str))))

(***************************************************************************)
(* The clear value behind a group's key handle: the address that           *)
(* createGroup derives from (timestamp, msg.sender, groupId).              *)
(***************************************************************************)
AddressByte(account) ==
    CASE account = "alice" -> 1 [] account = "bob" -> 2 [] account = "carol" -> 3

groupAddress(encryptedKey) ==
    SubSeq(keccak256(<<encryptedKey.t, AddressByte(encryptedKey.user), encryptedKey.n>>),
           KEY_BYTES - ADDRESS_BYTES + 1, KEY_BYTES)

(***************************************************************************)
(* instance.userDecrypt(handles, ..., address): refused unless the user    *)
(* and the contract are allowed on every handle of the request.            *)
(***************************************************************************)
UserDecryptDenied == "User is not authorized to decrypt this handle"

userDecryptAllowed(handles, address) ==
    \A h \in handles : isAllowed(h, address) /\ isAllowed(h, This)

(***************************************************************************)
(* What the browser starts from: a registry in which alice has created     *)
(* group 0, bob has joined it and alice has created group 1, and a wallet  *)
(* connected as a member of both groups (alice) or of none (carol).        *)
(***************************************************************************)
SeedKey == asEaddress(1, "alice", 0)

SeedGroup == NewGroup("Alpha", SeedKey, "alice")

SecondKey == asEaddress(1, "alice", 1)

SecondGroup == NewGroup("Alpha", SecondKey, "alice")

Seeded ==
    /\ groups = <<JoinMembers(SeedGroup, "bob"), SecondGroup>>
    /\ groupMessages = [g \in GroupIds |-> <<>>]
    /\ acl = allow(allow(CreateAllowed(SeedKey, "alice"),
                         JoinAllowed(SeedGroup, <<>>, "bob")),
                   CreateAllowed(SecondKey, "alice"))
    /\ events = [g \in GroupIds |->
                    CASE g = 0 -> <<GroupCreated(0, "Alpha", "alice", SeedKey),
                                    GroupJoined(0, "bob")>>
                      [] g = 1 -> <<GroupCreated(1, "Alpha", "alice", SecondKey)>>
                      [] OTHER -> <<>>]
    /\ now = 1
    /\ last = Outcome("createGroup", "", 1)

Wallets == {"alice", "carol"}

ClientInit ==
    /\ Seeded
    /\ codec = CodecIdle
    /\ ciphertexts = NoCiphertexts
    /\ \E address \in Wallets : client = [ClientIdle EXCEPT !.address = address]

(***************************************************************************)
(* loadGroups: with no group selected, the first group is selected.  A     *)
(* change of selectedGroupId runs the two effects that depend on it: the   *)
(* group key is cleared and a loadGroupDetails for the new id is started.  *)
(***************************************************************************)
Selecting(groupId) ==
    [client EXCEPT !.selectedGroupId = groupId, !.groupKey = NoKey,
                   !.loading = @ \cup {groupId}]

loadGroups ==
    /\ client.selectedGroupId = -1
    /\ getGroupCount.val > 0
    /\ client' = Selecting(0)
    /\ UNCHANGED <<registry, codec, ciphertexts>>

\* onClick of a group of the list: setSelectedGroupId(group.id)
selectGroup(groupId) ==
    /\ client.selectedGroupId # -1
    /\ groupId \in ExistingGroups
    /\ groupId # client.selectedGroupId
    /\ client' = Selecting(groupId)
    /\ UNCHANGED <<registry, codec, ciphertexts>>

\* refresh(): the effects that depend on refreshVersion run again
refresh(state) == [state EXCEPT !.loading = @ \cup {state.selectedGroupId}]

(***************************************************************************)
(* loadGroupDetails, started for groupId by an effect and now completing:  *)
(* the members and the messages of that group, none decoded.  The effect   *)
(* has no cleanup, so a load completes whatever is selected by then.       *)
(* loaded records what the last completed load has set.                    *)
(***************************************************************************)
Rows(groupId) ==
    [i \in 1 .. getMessageCount(groupId).val |->
        [index |-> i - 1,
         sender |-> getMessage(groupId, i - 1).val[1],
         encryptedContent |-> getMessage(groupId, i - 1).val[2],
         timestamp |-> getMessage(groupId, i - 1).val[3],
         decoded |-> Undecoded]]

loadGroupDetails(groupId) ==
    /\ groupId \in client.loading
    /\ client' = [client EXCEPT !.members = getGroupMembers(groupId).val,
                                !.messages = Rows(groupId),
                                !.loading = @ \ {groupId},
                                !.loaded = [groupId |-> groupId, rows |-> Rows(groupId)]]
    /\ UNCHANGED <<registry, codec, ciphertexts>>

(***************************************************************************)
(* decryptKey: up to the await of runUserDecrypt, and its continuation,    *)
(* which sets the key of the group the handler was started for.            *)
(***************************************************************************)
SelectGroupFirst == "Select a group and ensure the contract address is set"

GroupSecret(groupId) ==
    normalizeGroupKey(BigIntOfHex(groupAddress(getGroupKey(groupId).val)))

decryptKey ==
    /\ client.pc = "idle"
    /\ client' = IF client.selectedGroupId = -1
                 THEN [client EXCEPT !.status = SelectGroupFirst]
                 ELSE [client EXCEPT !.decoding = TRUE, !.status = "",
                                     !.pc = "decryptKey",
                                     !.request = {getGroupKey(client.selectedGroupId).val}]
    /\ UNCHANGED <<registry, codec, ciphertexts>>

decryptKeyResolved ==
    /\ client.pc = "decryptKey"
    /\ client' =
           IF userDecryptAllowed(client.request, client.address)
           THEN [client EXCEPT
                    !.groupKey = CHOOSE k \in {normalizeGroupKey(BigIntOfHex(groupAddress(h))) :
                                                  h \in client.request} : TRUE,
                    !.decoding = FALSE, !.pc = "idle", !.request = {}]
           ELSE [client EXCEPT !.status = UserDecryptDenied,
                               !.decoding = FALSE, !.pc = "idle", !.request = {}]
    /\ UNCHANGED <<registry, codec, ciphertexts>>

(***************************************************************************)
(* The message box, and handleSendMessage: the seal and the input          *)
(* encryption, which gives the service a new ciphertext of the sealed      *)
(* value under a new input handle, and then the transaction the handler    *)
(* submits and waits for.  In the service's record of a ciphertext, val is *)
(* the clear value; text and key record what the client sealed.            *)
(***************************************************************************)
DecryptKeyFirst == "Decrypt the group key first"

setMessageText(text) ==
    /\ client' = [client EXCEPT !.messageText = text]
    /\ UNCHANGED <<registry, codec, ciphertexts>>

encrypt == [user |-> client.address, n |-> 1 + Cardinality(DOMAIN ciphertexts)]

add256(cipherValue, text, groupKey) ==
    ciphertexts @@ (encrypt :> [val |-> cipherValue, text |-> text, key |-> groupKey])

Sealing(sealed) ==
    IF sealed.err # ""
    THEN [client EXCEPT !.status = sealed.err, !.sending = FALSE]
    ELSE [client EXCEPT !.sending = TRUE, !.status = "", !.sendPc = "sendMessage",
                        !.cipherValue = sealed.val,
                        !.tx = [groupId |-> client.selectedGroupId, input |-> encrypt]]

handleSendMessage ==
    /\ client.sendPc = "idle"
    /\ client' =
           IF client.selectedGroupId = -1 THEN client
           ELSE IF client.groupKey = NoKey
           THEN [client EXCEPT !.status = DecryptKeyFirst]
           ELSE IF trim(client.messageText) = <<>> THEN client
           ELSE Sealing(sealMessage(trim(client.messageText), client.groupKey))
    /\ ciphertexts' =
           IF client'.sendPc = "sendMessage"
           THEN add256(client'.cipherValue, trim(client.messageText), client.groupKey)
           ELSE ciphertexts
    /\ UNCHANGED <<registry, codec>>

sendMessageMined ==
    /\ client.sendPc = "sendMessage"
    /\ sendMessage(client.address, client.tx.groupId, client.tx.input)
    /\ client' =
           IF last'.err = ""
           THEN refresh([client EXCEPT !.messageText = <<>>, !.sending = FALSE,
                                       !.sendPc = "idle", !.tx = NoTx,
                                       !.cipherValue = ClientIdle.cipherValue])
           ELSE [client EXCEPT !.status = last'.err, !.sending = FALSE,
                               !.sendPc = "idle", !.tx = NoTx,
                               !.cipherValue = ClientIdle.cipherValue]
    /\ UNCHANGED <<codec, ciphertexts>>

(***************************************************************************)
(* decryptMessages: up to the await of runUserDecrypt, and its             *)
(* continuation over the messages and the key the handler closed over.     *)
(* The response maps each requested handle to the clear value the service  *)
(* returned for it, if it returned one: for a ciphertext the service       *)
(* holds that is its clear value.                                          *)
(***************************************************************************)
DecryptKeyAndMessages == "Decrypt the group key and ensure messages exist"

Missing == [present |-> FALSE, val |-> [neg |-> FALSE, mag |-> <<>>]]

Present(value) == [present |-> TRUE, val |-> value]

ResponseValues ==
    {[neg |-> FALSE, mag |-> <<>>],
     [neg |-> FALSE, mag |-> <<1>> \o Zeros(KEY_BYTES)]}

inputOf(handle) == [user |-> handle.user, n |-> handle.n]

Known(handle) == inputOf(handle) \in DOMAIN ciphertexts

userDecrypt(handle) ==
    IF Known(handle) THEN {Present(ciphertexts[inputOf(handle)].val)}
    ELSE {Missing} \cup {Present(v) : v \in ResponseValues}

Responses(handles) ==
    {response \in [handles -> UNION {userDecrypt(h) : h \in handles}] :
        \A h \in handles : response[h] \in userDecrypt(h)}

\* !raw: undefined and 0n are falsy
Falsy(raw) == ~raw.present \/ raw.val = [neg |-> FALSE, mag |-> <<>>]

HandlesOf(items) == {items[i].encryptedContent : i \in 1 .. Len(items)}

OpenItem(msg, response, groupKey) ==
    IF msg.encryptedContent \notin DOMAIN response
           \/ Falsy(response[msg.encryptedContent])
    THEN msg
    ELSE LET clear == openMessage(response[msg.encryptedContent].val, groupKey)
         IN IF clear.err = ""
            THEN [msg EXCEPT !.decoded = Decoded(clear.val)]
            ELSE [msg EXCEPT !.decoded = UnableToDecode]

decryptMessages ==
    /\ client.pc = "idle"
    /\ client' =
           IF client.groupKey = NoKey \/ client.messages = <<>>
           THEN [client EXCEPT !.status = DecryptKeyAndMessages]
           ELSE IF SelectSeq(client.messages, NotDecoded) = <<>>
           THEN [client EXCEPT !.status = "", !.decoding = FALSE]
           ELSE [client EXCEPT !.decoding = TRUE, !.status = "",
                               !.pc = "decryptMessages",
                               !.request = HandlesOf(SelectSeq(client.messages, NotDecoded)),
                               !.batch = client.messages,
                               !.batchKey = client.groupKey]
    /\ UNCHANGED <<registry, codec, ciphertexts>>

decryptMessagesResolved(response) ==
    /\ client.pc = "decryptMessages"
    /\ client' =
           IF userDecryptAllowed(client.request, client.address)
           THEN [client EXCEPT
                    !.messages = [i \in 1 .. Len(client.batch) |->
                                     OpenItem(client.batch[i], response, client.batchKey)],
                    !.decoding = FALSE, !.pc = "idle", !.request = {},
                    !.batch = <<>>, !.batchKey = NoKey]
           ELSE [client EXCEPT !.status = UserDecryptDenied,
                               !.decoding = FALSE, !.pc = "idle", !.request = {},
                               !.batch = <<>>, !.batchKey = NoKey]
    /\ UNCHANGED <<registry, codec, ciphertexts>>

(***************************************************************************)
(* The browser and the other accounts, which join the first group and     *)
(* send to it on their own; of their transactions only those that commit   *)
(* are taken, a reverted one leaving nothing for the browser to read.      *)
(***************************************************************************)
RemoteGroups == {0}

Commits == last'.err = ""

\* ten euro signs and an a: 31 bytes
LongestText == [i \in 1 .. 10 |-> 8364] \o <<97>>

ClientTexts == {<<65279>> \o LongestText \o <<32>>, [i \in 1 .. 11 |-> 8364]}

\* what another account submits: any number of inputs of its own
RemoteInputs(sender) == {[user |-> sender, n |-> k] : k \in 1 .. MaxMessages}

ClientNext ==
    \/ loadGroups
    \/ \E groupId \in GroupIds : loadGroupDetails(groupId)
    \/ decryptKey
    \/ decryptKeyResolved
    \/ \E text \in ClientTexts : setMessageText(text)
    \/ handleSendMessage
    \/ sendMessageMined
    \/ decryptMessages
    \/ \E response \in Responses(client.request) : decryptMessagesResolved(response)
    \/ \E sender \in Accounts \ {client.address}, groupId \in RemoteGroups :
           \E input \in RemoteInputs(sender) :
               SendMessageTx(sender, groupId, input) /\ Commits
    \/ \E sender \in Accounts \ {client.address}, groupId \in RemoteGroups :
           JoinGroupTx(sender, groupId) /\ Commits

ClientSpec == ClientInit /\ [][ClientNext]_vars

(***************************************************************************)
(* The same browser with a user who also moves from one group of the list  *)
(* to another.                                                             *)
(***************************************************************************)
BrowseNext ==
    \/ ClientNext
    \/ \E groupId \in GroupIds : selectGroup(groupId)

BrowseSpec == ClientInit /\ [][BrowseNext]_vars

LastEvent(groupId) == events[groupId][Len(events[groupId])]

EventKinds(groupId) == [i \in 1 .. Len(events[groupId]) |-> events[groupId][i].event]

IsJoined(e) == e.event = "GroupJoined"

Joiners(groupId) ==
    LET joined == SelectSeq(events[groupId], IsJoined)
    IN [i \in 1 .. Len(joined) |-> joined[i].member]

NoDuplicates(s) == \A i, j \in 1 .. Len(s) : s[i] = s[j] => i = j

(***************************************************************************)
(* C1.  Every member of a group holds a decrypt grant on the group's key   *)
(* handle and on the handle of every message stored in the group, whether  *)
(* the message was sent before or after the member joined.                 *)
(***************************************************************************)
C1_MembersHoldGrants ==
    \A g \in ExistingGroups : \A a \in Accounts :
        isGroupMember(g, a).val =>
            /\ canDecryptGroupKey(g, a) = Returned(TRUE)
            /\ \A i \in MessageIndices(g) : canDecryptMessage(g, i, a) = Returned(TRUE)

\* A member joined between two messages of the same group.
C1_Witness ==
    \E g \in ExistingGroups :
        EventKinds(g) = <<"GroupCreated", "MessageSent", "GroupJoined", "MessageSent">>

(***************************************************************************)
(* C2.  A principal that is not a member of group g holds no decrypt grant *)
(* on g's key handle nor on the handle of any message stored in g.         *)
(***************************************************************************)
C2_NonMembersHoldNoGrant ==
    \A g \in ExistingGroups : \A a \in Accounts :
        ~isGroupMember(g, a).val =>
            /\ canDecryptGroupKey(g, a) = Returned(FALSE)
            /\ \A i \in MessageIndices(g) : canDecryptMessage(g, i, a) = Returned(FALSE)

(***************************************************************************)
(* C3.  Retroactive grant: right after a successful joinGroup(g) by a on a *)
(* group holding messages 0..k, a is a member, can decrypt the group key   *)
(* and can decrypt every message 0..k.                                     *)
(***************************************************************************)
C3_RetroactiveGrant ==
    [][last' = Outcome("joinGroup", "", 0) =>
          \A a \in Accounts, g \in GroupIds :
              joinGroup(a, g) =>
              /\ isGroupMember(g, a)' = Returned(TRUE)
              /\ canDecryptGroupKey(g, a)' = Returned(TRUE)
              /\ \A i \in MessageIndices(g) :
                     canDecryptMessage(g, i, a)' = Returned(TRUE)]_vars

\* A join has just committed on a group that held two messages.
C3_Witness ==
    /\ last = Outcome("joinGroup", "", 0)
    /\ \E g \in ExistingGroups :
           /\ LastEvent(g).event = "GroupJoined"
           /\ Len(groupMessages[g]) = 2

(***************************************************************************)
(* C4.  Forward grant: right after a successful sendMessage on group g,    *)
(* every principal that is then a member of g can decrypt the message just *)
(* appended.                                                               *)
(***************************************************************************)
C4_ForwardGrant ==
    [][last' = Outcome("sendMessage", "", 0) =>
          \A a \in Accounts, g \in GroupIds : \A input \in Submittable(a) :
              sendMessage(a, g, input) =>
              \A m \in Accounts :
                  isGroupMember(g, m)'.val =>
                      canDecryptMessage(g, getMessageCount(g).val - 1, m)'
                          = Returned(TRUE)]_vars

\* A message has just been sent to a group of three members by a joiner.
C4_Witness ==
    /\ last = Outcome("sendMessage", "", 0)
    /\ \E g \in ExistingGroups :
           /\ LastEvent(g).event = "MessageSent"
           /\ Len(Group(g).members) = 3
           /\ LastEvent(g).sender # Group(g).creator

(***************************************************************************)
(* C6.  A joinGroup(g) by a principal that is already a member of g (the   *)
(* creator included) fails with AlreadyMember and leaves the member list,  *)
(* the membership set, the messages and the ACL unchanged.                 *)
(***************************************************************************)
C6_SecondJoinFails ==
    [][last'.op = "joinGroup" =>
          \A a \in Accounts, g \in ExistingGroups :
              (isGroupMember(g, a).val /\ joinGroup(a, g)) =>
              /\ last' = Outcome("joinGroup", AlreadyMember, 0)
              /\ getGroupMembers(g)' = getGroupMembers(g)
              /\ \A b \in Accounts : isGroupMember(g, b)' = isGroupMember(g, b)
              /\ UNCHANGED <<groups, groupMessages, acl>>]_vars

\* A join by a member who is not the creator has just been refused.
C6_Witness ==
    /\ last = Outcome("joinGroup", AlreadyMember, 0)
    /\ \E g \in ExistingGroups : Len(Group(g).members) >= 2

(***************************************************************************)
(* C7.  A sendMessage(g, ...) by a caller that is not a member of g fails  *)
(* with NotMember: no message is appended, no grant is made and no event   *)
(* is emitted.                                                             *)
(***************************************************************************)
C7_NonMemberSendFails ==
    [][last'.op = "sendMessage" =>
          \A a \in Accounts, g \in ExistingGroups : \A input \in Submittable(a) :
              (~isGroupMember(g, a).val /\ sendMessage(a, g, input)) =>
              /\ last' = Outcome("sendMessage", NotMember, 0)
              /\ UNCHANGED <<groupMessages, acl, events>>]_vars

\* A send by a non-member has just been refused on a group holding a message.
C7_Witness ==
    /\ last = Outcome("sendMessage", NotMember, 0)
    /\ \E g \in ExistingGroups :
           /\ Len(groupMessages[g]) >= 1
           /\ \E a \in Accounts : ~Group(g).isMember[a]

(***************************************************************************)
(* C8.  Monotonic membership: after n successful joins on a group,         *)
(* getGroupMembers has length n + 1, has no duplicates, starts with the    *)
(* creator and lists the joiners in the order their joins committed; the   *)
(* member list only ever grows by appending.                               *)
(***************************************************************************)
MembersInJoinOrder(g) ==
    /\ getGroupMembers(g).val = <<Group(g).creator>> \o Joiners(g)
    /\ Len(getGroupMembers(g).val) = Len(Joiners(g)) + 1
    /\ NoDuplicates(getGroupMembers(g).val)

C8_MonotonicMembership ==
    /\ [](\A g \in ExistingGroups : MembersInJoinOrder(g))
    /\ [][\A g \in ExistingGroups :
              \/ getGroupMembers(g)' = getGroupMembers(g)
              \/ \E a \in Accounts :
                     getGroupMembers(g)'.val = Append(getGroupMembers(g).val, a)]_vars

\* Two distinct principals joined a group in the order carol, bob.
C8_Witness ==
    \E g \in ExistingGroups :
        /\ Joiners(g) = <<"carol", "bob">>
        /\ Len(Group(g).members) = 3

(***************************************************************************)
(* C9.  For every existing group the member list is non-empty, contains    *)
(* the creator, holds no principal twice, and isGroupMember is true        *)
(* exactly for the principals in the list, so memberCount is the number of *)
(* principals for which isGroupMember is true.                             *)
(***************************************************************************)
C9_MemberListInvariant ==
    \A g \in ExistingGroups :
        /\ getGroupMembers(g).val # <<>>
        /\ Group(g).creator \in SeqRange(getGroupMembers(g).val)
        /\ NoDuplicates(getGroupMembers(g).val)
        /\ \A a \in Accounts :
               isGroupMember(g, a).val <=> a \in SeqRange(getGroupMembers(g).val)
        /\ getGroup(g).val[4] = Cardinality({a \in Accounts : isGroupMember(g, a).val})

\* A group with its creator and two joiners.
C9_Witness ==
    \E g \in ExistingGroups :
        /\ Len(Group(g).members) = 3
        /\ LastEvent(g).event = "GroupJoined"

(***************************************************************************)
(* C10.  A createGroup with a non-empty name by c in a state with n groups *)
(* succeeds and returns n; the group count becomes n + 1; group n has the  *)
(* given name, creator c, member list [c], memberCount 1 and a decrypt     *)
(* grant for c on its key handle.  Ids are dense and an id is never        *)
(* reused or reassigned: no step lowers the count or changes the name,     *)
(* creator or key handle found under an existing id.                       *)
(***************************************************************************)
C10_CreateGroup ==
    [][/\ last'.op = "createGroup" =>
              \A c \in Accounts, name \in Names :
              (name # "" /\ createGroup(c, name)) =>
                  \A n \in {Len(groups)} :
                     /\ last' = Outcome("createGroup", "", n)
                     /\ getGroupCount' = Returned(n + 1)
                     /\ getGroup(n)' = Returned(<<name, getGroupKey(n).val', c, 1>>)
                     /\ getGroupMembers(n)' = Returned(<<c>>)
                     /\ \A a \in Accounts : isGroupMember(n, a)' = Returned(a = c)
                     /\ canDecryptGroupKey(n, c)' = Returned(TRUE)
       /\ \/ UNCHANGED groups
          \/ /\ getGroupCount.val' >= getGroupCount.val
             /\ \A g \in GroupIds : validGroup(g)' <=> g < getGroupCount.val'
             /\ \A g \in ExistingGroups :
                    /\ getGroup(g).val'[1] = getGroup(g).val[1]
                    /\ getGroup(g).val'[2] = getGroup(g).val[2]
                    /\ getGroup(g).val'[3] = getGroup(g).val[3]]_vars

\* A second group has just been created, after activity in the first.
C10_Witness ==
    /\ last = Outcome("createGroup", "", 1)
    /\ Len(groups) = 2
    /\ Len(events[0]) >= 2

C12_MessagesAppendOnly ==
    /\ [](\A g \in ExistingGroups : \A i \in 0 .. MaxMessages + 1 :
              getMessage(g, i).err = "" <=> i < getMessageCount(g).val)
    /\ [][\/ UNCHANGED groupMessages
          \/ \A g \in ExistingGroups :
                 /\ getMessageCount(g).val' >= getMessageCount(g).val
                 /\ \A i \in MessageIndices(g) : getMessage(g, i)' = getMessage(g, i)]_vars

\* A group holds two messages stamped at different times by different senders.
C12_Witness ==
    \E g \in ExistingGroups :
        /\ getMessageCount(g).val = 2
        /\ getMessage(g, 0).val[3] < getMessage(g, 1).val[3]
        /\ getMessage(g, 0).val[1] # getMessage(g, 1).val[1]
        /\ now > getMessage(g, 0).val[3]

(***************************************************************************)
(* C13.  A createGroup, joinGroup or sendMessage transaction that fails,   *)
(* at a precondition or at the import of the ciphertext by the encryption  *)
(* service, leaves the registry as it was: the group count, every group's  *)
(* fields, member list and membership flags, every message sequence and    *)
(* every ACL grant.                                                        *)
(***************************************************************************)
Failures ==
    {Outcome("createGroup", NameRequired, 0),
     Outcome("joinGroup", InvalidGroup, 0),
     Outcome("joinGroup", AlreadyMember, 0),
     Outcome("sendMessage", InvalidGroup, 0),
     Outcome("sendMessage", NotMember, 0),
     Outcome("sendMessage", InvalidProof, 0)}

ReadsRejectInvalidGroup(g) ==
    /\ getGroup(g).err = InvalidGroup
    /\ getGroupMembers(g).err = InvalidGroup
    /\ getGroupKey(g).err = InvalidGroup
    /\ getMessageCount(g).err = InvalidGroup
    /\ \A a \in Accounts :
           /\ isGroupMember(g, a).err = InvalidGroup
           /\ canDecryptGroupKey(g, a).err = InvalidGroup
    /\ \A i \in 0 .. MaxMessages :
           /\ getMessage(g, i).err = InvalidGroup
           /\ \A a \in Accounts : canDecryptMessage(g, i, a).err = InvalidGroup

InvalidJoinFails ==
    last'.op = "joinGroup" =>
        \A a \in Accounts, g \in GroupIds :
            (g >= getGroupCount.val /\ joinGroup(a, g)) =>
                /\ last' = Outcome("joinGroup", InvalidGroup, 0)
                /\ UNCHANGED <<groups, groupMessages, acl, events>>

InvalidSendFails ==
    last'.op = "sendMessage" =>
        \A a \in Accounts, g \in GroupIds : \A input \in Submittable(a) :
            (g >= getGroupCount.val /\ sendMessage(a, g, input)) =>
                /\ last' = Outcome("sendMessage", InvalidGroup, 0)
                /\ UNCHANGED <<groups, groupMessages, acl, events>>

C14_InvalidGroupFirst ==
    /\ [](\A g \in GroupIds : g >= getGroupCount.val => ReadsRejectInvalidGroup(g))
    /\ [][InvalidJoinFails /\ InvalidSendFails]_vars

\* A send to the first id that does not exist has just been refused, in a
\* registry that holds a group with a message.
C14_Witness ==
    /\ last = Outcome("sendMessage", InvalidGroup, 0)
    /\ getGroupCount.val = 1
    /\ Len(groupMessages[0]) >= 1

(***************************************************************************)
(* C15.  For an existing group g, getMessage(g, index) and                 *)
(* canDecryptMessage(g, index, account) fail with IndexOutOfRange (the     *)
(* array bounds panic) for every index >= getMessageCount(g) and succeed   *)
(* for every index < getMessageCount(g).                                   *)
(***************************************************************************)
C15_IndexOutOfRange ==
    \A g \in ExistingGroups : \A i \in 0 .. MaxMessages + 1 : \A a \in Accounts :
        IF i >= getMessageCount(g).val
        THEN /\ getMessage(g, i).err = IndexOutOfRange
             /\ canDecryptMessage(g, i, a).err = IndexOutOfRange
        ELSE /\ getMessage(g, i).err = ""
             /\ canDecryptMessage(g, i, a).err = ""

\* One group holds a message and another holds none.
C15_Witness ==
    /\ getGroupCount.val = 2
    /\ getMessageCount(0).val = 0
    /\ getMessageCount(1).val = 1

(***************************************************************************)
(* C16.  Length bound: sealMessage(m, k) fails with MessageTooLong if and  *)
(* only if the UTF-8 encoding of m is longer than 31 bytes; for every m of *)
(* 0..31 bytes, the empty string included, it returns an integer in        *)
(* 0..2^256-1 (not negative, at most 32 base-256 digits).                  *)
(***************************************************************************)
IsUint256(value) ==
    /\ ~value.neg
    /\ Len(value.mag) <= 32
    /\ \A i \in 1 .. Len(value.mag) : value.mag[i] \in 0 .. 255
    /\ value.mag # <<>> => value.mag[1] # 0

C16_LengthBound ==
    codec.pc \in {"sealed", "opened"} =>
        /\ codec.cipher.err = MessageTooLong <=> Len(TextEncode(codec.message)) > 31
        /\ Len(TextEncode(codec.message)) <= 31 =>
               /\ codec.cipher.err = ""
               /\ IsUint256(codec.cipher.val)

\* A text of exactly 31 bytes holding a character of several bytes was sealed.
C16_Witness ==
    /\ codec.pc = "sealed"
    /\ Len(TextEncode(codec.message)) = 31
    /\ Len(codec.message) < 31
    /\ codec.cipher.err = ""

(***************************************************************************)
(* C17.  openMessage(c, k) fails with CorruptEnvelope whenever the length  *)
(* byte recovered at offset 0 (byte 0 of c rendered as 32 big-endian       *)
(* bytes, XORed with byte 0 of the key stream of k) is greater than 31.    *)
(***************************************************************************)
CorruptEnvelope == "CorruptEnvelope"

Rendered(cipherValue) == Zeros(KEY_BYTES - Len(cipherValue.mag)) \o cipherValue.mag

LengthByte(cipherValue, groupKey) ==
    BitXor(Rendered(cipherValue)[1], deriveKeyBytes(groupKey)[1])

C17_CorruptEnvelope ==
    (/\ codec.pc = "decoded"
     /\ IsUint256(codec.cipher.val)
     /\ LengthByte(codec.cipher.val, codec.groupKey) > 31)
        => codec.plain.err = CorruptEnvelope

(***************************************************************************)
(* C18.  openMessage never crashes: for an arbitrary integer cipher value, *)
(* produced by sealMessage or not and of any magnitude, and any secret, it *)
(* returns a string or a CorruptEnvelope failure and fails in no other     *)
(* way.                                                                    *)
(***************************************************************************)
C18_OpenNeverCrashes ==
    codec.pc \in {"opened", "decoded"} => codec.plain.err \in {"", CorruptEnvelope}

(***************************************************************************)
(* C19.  A message whose UTF-8 encoding exceeds 31 bytes never reaches the *)
(* registry: when the send handler runs on such a text (a group selected,  *)
(* the key decrypted), sealing fails with MessageTooLong, the handler ends *)
(* with that status, no cipher value or transaction is left to submit and  *)
(* the registry, its message counts included, is unchanged; a handler that *)
(* goes on to submit holds the seal of a text of at most 31 bytes.         *)
(***************************************************************************)
SendsText ==
    /\ handleSendMessage
    /\ client.selectedGroupId # -1
    /\ client.groupKey # NoKey
    /\ trim(client.messageText) # <<>>

C19_TooLongNeverSent ==
    [][SendsText =>
          IF Len(TextEncode(trim(client.messageText))) > 31
          THEN /\ client'.status = MessageTooLong
               /\ client'.sendPc = "idle"
               /\ client'.tx = NoTx
               /\ client'.cipherValue = client.cipherValue
               /\ ~client'.sending
               /\ \A g \in GroupIds : getMessageCount(g)' = getMessageCount(g)
               /\ UNCHANGED registry
          ELSE /\ client'.sendPc = "sendMessage"
               /\ sealMessage(trim(client.messageText), client.groupKey)
                      = Returned(client'.cipherValue)]_vars

\* The handler has just refused a text of 11 characters and 33 bytes.
C19_Witness ==
    /\ client.status = MessageTooLong
    /\ client.sendPc = "idle"
    /\ Len(client.messageText) = 11
    /\ Len(TextEncode(client.messageText)) = 33
    /\ client.groupKey # NoKey

(***************************************************************************)
(* C20.  In a batch decrypt of several messages, a codec failure on one    *)
(* message marks only that message as undecodable: the batch is not        *)
(* aborted, and every message of the batch whose clear value was returned  *)
(* is opened and shown, as its text or, if opening it fails, as            *)
(* undecodable; the other messages are left as they were.                  *)
(***************************************************************************)
OpenFails(raw, groupKey) == raw.present /\ openMessage(raw.val, groupKey).err # ""

Shown(raw, groupKey) ==
    IF OpenFails(raw, groupKey) THEN UnableToDecode
    ELSE Decoded(openMessage(raw.val, groupKey).val)

C20_BatchDecryptIsolated ==
    [][client.pc = "decryptMessages" =>
          \A response \in Responses(client.request) :
              (/\ decryptMessagesResolved(response)
               /\ userDecryptAllowed(client.request, client.address)
               /\ \E h \in client.request : OpenFails(response[h], client.batchKey)) =>
              /\ client'.pc = "idle"
              /\ client'.status = client.status
              /\ Len(client'.messages) = Len(client.batch)
              /\ \A i \in 1 .. Len(client.batch) :
                     IF /\ client.batch[i].encryptedContent \in client.request
                        /\ response[client.batch[i].encryptedContent].present
                     THEN client'.messages[i] =
                              [client.batch[i] EXCEPT !.decoded =
                                  Shown(response[client.batch[i].encryptedContent],
                                        client.batchKey)]
                     ELSE client'.messages[i] = client.batch[i]]_vars

(***************************************************************************)
(* C21.  Each successful createGroup, joinGroup and sendMessage emits      *)
(* exactly one event (GroupCreated, GroupJoined, MessageSent) and a failed *)
(* call emits none, so the event log alone gives back the registry: the    *)
(* number of groups, each group's name, creator and key handle, its member *)
(* list in order (creator first) and its sequence of (sender, handle).     *)
(***************************************************************************)
IsSent(e) == e.event = "MessageSent"

ReplayedCount == Cardinality({g \in GroupIds : events[g] # <<>>})

ReplayedMessages(groupId) ==
    LET sent == SelectSeq(events[groupId], IsSent)
    IN [i \in 1 .. Len(sent) |-> <<sent[i].sender, sent[i].encryptedContent>>]

StoredMessages(groupId) ==
    [i \in 1 .. getMessageCount(groupId).val |->
        <<getMessage(groupId, i - 1).val[1], getMessage(groupId, i - 1).val[2]>>]

ReplayGivesRegistry ==
    /\ getGroupCount.val = ReplayedCount
    /\ \A g \in GroupIds : validGroup(g) <=> events[g] # <<>>
    /\ \A g \in ExistingGroups :
           /\ events[g][1].event = "GroupCreated"
           /\ \A i \in 2 .. Len(events[g]) : events[g][i].event # "GroupCreated"
           /\ \A i \in 1 .. Len(events[g]) : events[g][i].groupId = g
           /\ getGroup(g).val[1] = events[g][1].name
           /\ getGroup(g).val[2] = events[g][1].encryptedKey
           /\ getGroup(g).val[3] = events[g][1].creator
           /\ getGroupMembers(g).val = <<events[g][1].creator>> \o Joiners(g)
           /\ StoredMessages(g) = ReplayedMessages(g)

OneEventPerSuccess ==
    IF last'.err = ""
    THEN /\ EventCount' = EventCount + 1
         /\ \E g \in GroupIds :
                /\ Len(events'[g]) = Len(events[g]) + 1
                /\ SubSeq(events'[g], 1, Len(events[g])) = events[g]
                /\ events'[g][Len(events'[g])].event =
                       CASE last'.op = "createGroup" -> "GroupCreated"
                         [] last'.op = "joinGroup" -> "GroupJoined"
                         [] last'.op = "sendMessage" -> "MessageSent"
    ELSE UNCHANGED events

C21_EventsReplay ==
    /\ []ReplayGivesRegistry
    /\ [][OneEventPerSuccess]_vars

\* Two groups, one of them with a joiner and two messages.
C21_Witness ==
    /\ getGroupCount.val = 2
    /\ \E g \in ExistingGroups :
           /\ Len(Joiners(g)) >= 1
           /\ Len(ReplayedMessages(g)) = 2
           /\ ReplayedMessages(g)[1] # ReplayedMessages(g)[2]

(***************************************************************************)
(* C22.  Transactions are linearized.  A joinGroup(g) by a non-member A    *)
(* and a sendMessage(g) by a member B do not disable each other: each      *)
(* commits from any state in which its own precondition holds, the join    *)
(* leaves B a member and the send leaves A a non-member, so both commit in *)
(* either order; once both have committed A is a member and holds a grant  *)
(* on B's message.  No state shows a member or a message without the       *)
(* grants that go with it.                                                 *)
(***************************************************************************)
JoinedAndSent(g) ==
    \A i, j \in 1 .. Len(events[g]) :
        (IsJoined(events[g][i]) /\ IsSent(events[g][j])) =>
            /\ isGroupMember(g, events[g][i].member).val
            /\ isAllowed(events[g][j].encryptedContent, events[g][i].member)

GrantsComplete(g) ==
    \A a \in Members(g) :
        /\ isAllowed(Group(g).encryptedKey, a)
        /\ \A h \in MessageHandles(g) : isAllowed(h, a)

JoinKeepsSender ==
    \A g \in ExistingGroups : \A A \in Accounts :
        (~isGroupMember(g, A).val /\ joinGroup(A, g)) =>
            /\ last' = Outcome("joinGroup", "", 0)
            /\ getMessageCount(g)' = getMessageCount(g)
            /\ \A B \in Accounts :
                   isGroupMember(g, B).val => isGroupMember(g, B)' = Returned(TRUE)

SendKeepsJoiner ==
    \A g \in ExistingGroups : \A B \in Accounts : \A input \in Submittable(B) :
        (isGroupMember(g, B).val /\ ProofValid(input, B) /\ sendMessage(B, g, input)) =>
            /\ last' = Outcome("sendMessage", "", 0)
            /\ getGroupMembers(g)' = getGroupMembers(g)
            /\ \A A \in Accounts :
                   ~isGroupMember(g, A).val => isGroupMember(g, A)' = Returned(FALSE)

JoinAndSendCommute ==
    /\ last'.op = "joinGroup" => JoinKeepsSender
    /\ last'.op = "sendMessage" => SendKeepsJoiner

C22_Linearized ==
    /\ [](\A g \in ExistingGroups : JoinedAndSent(g) /\ GrantsComplete(g))
    /\ [][JoinAndSendCommute]_vars

\* carol joined between two messages of the creator: her join committed after
\* one send and before the other.
C22_Witness ==
    /\ last = Outcome("sendMessage", "", 0)
    /\ \E g \in ExistingGroups :
           /\ EventKinds(g) = <<"GroupCreated", "MessageSent", "GroupJoined", "MessageSent">>
           /\ Joiners(g) = <<"carol">>
           /\ getMessage(g, 0).val[1] = Group(g).creator
           /\ getMessage(g, 1).val[1] = Group(g).creator

(***************************************************************************)
(* C23.  End to end: when a member seals a text m of at most 31 UTF-8      *)
(* bytes with the group's secret and sends it, the stored handle decrypts  *)
(* to exactly the integer the sender submitted, and every member of the    *)
(* group, one who joins afterwards included, is authorized to decrypt the  *)
(* key handle and that message handle and recovers exactly m by opening    *)
(* the decrypted integer with the decrypted secret.                        *)
(***************************************************************************)
Clear(handle) == ciphertexts[inputOf(handle)]

SealedForGroup(g, h) ==
    /\ Known(h)
    /\ Clear(h).key = GroupSecret(g)
    /\ Len(TextEncode(Clear(h).text)) <= 31

MembersRecover ==
    \A g \in ExistingGroups : \A i \in MessageIndices(g) :
        \A h \in {getMessage(g, i).val[2]} :
            SealedForGroup(g, h) =>
                /\ \A m \in Members(g) :
                       /\ canDecryptGroupKey(g, m) = Returned(TRUE)
                       /\ canDecryptMessage(g, i, m) = Returned(TRUE)
                       /\ userDecryptAllowed({getGroupKey(g).val, h}, m)
                /\ userDecrypt(h) = {Present(Clear(h).val)}
                /\ openMessage(Clear(h).val, GroupSecret(g)) = Returned(Clear(h).text)

StoredAsSubmitted ==
    (client.sendPc = "sendMessage" /\ sendMessageMined /\ last'.err = "") =>
        \A g \in {client.tx.groupId} : \A n \in {getMessageCount(g).val} :
            \A h \in {getMessage(g, n)'.val[2]} :
                /\ getMessage(g, n)'.val[1] = client.address
                /\ Known(h)
                /\ Clear(h).val = client.cipherValue
                /\ sealMessage(Clear(h).text, Clear(h).key) = Returned(client.cipherValue)

C23_EndToEnd == []MembersRecover /\ [][StoredAsSubmitted]_vars

\* alice has typed a text of 31 bytes between a U+FEFF and a space and sent
\* it to group 0, her browser shows it decoded, and carol has joined the
\* group afterwards.
C23_Witness ==
    /\ client.address = "alice"
    /\ getMessageCount(0).val = 1
    /\ SealedForGroup(0, getMessage(0, 0).val[2])
    /\ Clear(getMessage(0, 0).val[2]).text = LongestText
    /\ Len(TextEncode(LongestText)) = 31
    /\ Len(client.messages) = 1
    /\ client.messages[1].decoded = Decoded(LongestText)
    /\ LastEvent(0) = GroupJoined(0, "carol")
    /\ userDecryptAllowed({getGroupKey(0).val, getMessage(0, 0).val[2]}, "carol")

(***************************************************************************)
(* C24.  In every reachable state the sender of every stored message of    *)
(* group g is a member of g.                                               *)
(***************************************************************************)
C24_SendersAreMembers ==
    \A g \in ExistingGroups : \A i \in MessageIndices(g) :
        isGroupMember(g, getMessage(g, i).val[1]) = Returned(TRUE)

\* A group holds a message of its creator and a message of a joiner.
C24_Witness ==
    \E g \in ExistingGroups :
        /\ getMessageCount(g).val = 2
        /\ getMessage(g, 0).val[1] = Group(g).creator
        /\ getMessage(g, 1).val[1] # Group(g).creator

(***************************************************************************)
(* C25.  Within each group's message sequence timestamps are               *)
(* non-decreasing: timestamp(i) <= timestamp(j) for all indices i < j of   *)
(* the same group, the ledger's clock never going backwards.               *)
(***************************************************************************)
C25_TimestampsOrdered ==
    \A g \in ExistingGroups : \A i, j \in MessageIndices(g) :
        i < j => getMessage(g, i).val[3] <= getMessage(g, j).val[3]

\* Two messages of a group were stamped at different block times.
C25_Witness ==
    \E g \in ExistingGroups :
        /\ getMessageCount(g).val = 2
        /\ getMessage(g, 0).val[3] = 1
        /\ getMessage(g, 1).val[3] = 2

(***************************************************************************)
(* C26.  A group's name, key handle and creator are fixed at creation:     *)
(* for every existing group getGroup and getGroupKey return the same name, *)
(* key handle and creator after every step, whatever the step.             *)
(***************************************************************************)
Identity(g) == <<getGroup(g).val[1], getGroup(g).val[2], getGroup(g).val[3], getGroupKey(g)>>

C26_GroupIdentityFixed ==
    [][\A g \in ExistingGroups : Identity(g)' = Identity(g)]_vars

\* A group has seen a join and a message and a later group exists.
C26_Witness ==
    /\ getGroupCount.val = 2
    /\ Len(Joiners(0)) >= 1
    /\ getMessageCount(0).val >= 1
    /\ LastEvent(0).event # "GroupCreated"
    /\ Group(0).creator # Group(1).creator

(***************************************************************************)
(* C27.  createGroup with an empty name fails and creates nothing: the     *)
(* group count is unchanged, no id is consumed, no grant is made and no    *)
(* event is emitted; so every existing group has a non-empty name.         *)
(***************************************************************************)
EmptyNameFails ==
    last'.op = "createGroup" =>
        \A c \in Accounts :
            createGroup(c, "") =>
                /\ last' = Outcome("createGroup", NameRequired, 0)
                /\ getGroupCount' = getGroupCount
                /\ UNCHANGED <<groups, groupMessages, acl, events>>

C27_EmptyNameRejected ==
    /\ [](\A g \in ExistingGroups : getGroup(g).val[1] # "")
    /\ [][EmptyNameFails]_vars

\* An empty name has just been refused in a registry that holds a group.
C27_Witness ==
    /\ last = Outcome("createGroup", NameRequired, 0)
    /\ getGroupCount.val = 1
    /\ acl # {}

(***************************************************************************)
(* C28.  A successful sendMessage(g) by c appends exactly one record to g, *)
(* at index old count, with sender c, the handle imported from the         *)
(* supplied ciphertext and the current ledger time; the count of g grows   *)
(* by exactly 1, and the handle the members are granted on is the handle   *)
(* that is stored and emitted.                                             *)
(***************************************************************************)
SendAppendsOne ==
    last' = Outcome("sendMessage", "", 0) =>
        \A c \in Accounts, g \in ExistingGroups : \A input \in Submittable(c) :
            sendMessage(c, g, input) =>
                \A n \in {getMessageCount(g).val} : \A h \in {fromExternal(input)} :
                    /\ getMessageCount(g)' = Returned(n + 1)
                    /\ getMessage(g, n)' = Returned(<<c, h, now>>)
                    /\ \A i \in 0 .. n - 1 : getMessage(g, i)' = getMessage(g, i)
                    /\ \A m \in Members(g) : canDecryptMessage(g, n, m)' = Returned(TRUE)
                    /\ acl' \ acl \subseteq {<<h, p>> : p \in Members(g) \cup {This}}
                    /\ events'[g][Len(events'[g])] = MessageSent(g, c, h)

C28_SendAppendsOne == [][SendAppendsOne]_vars

\* A joiner has just sent the second message of a group of three members.
C28_Witness ==
    /\ last = Outcome("sendMessage", "", 0)
    /\ \E g \in ExistingGroups :
           /\ getMessageCount(g).val = 2
           /\ LastEvent(g) = MessageSent(g, getMessage(g, 1).val[1], getMessage(g, 1).val[2])
           /\ getMessage(g, 1).val[1] # Group(g).creator
           /\ Len(Group(g).members) = 3

(***************************************************************************)
(* C29.  In the client the decrypted group key held in memory always       *)
(* belongs to the currently selected group: whatever the interleaving of   *)
(* selection changes with a key decrypt in flight, a non-null groupKey is  *)
(* the secret of the selected group, and a message on its way to group g   *)
(* was sealed with the secret of g.                                        *)
(***************************************************************************)
KeyOfSelectedGroup ==
    client.groupKey # NoKey => client.groupKey = GroupSecret(client.selectedGroupId)

SealedForTarget ==
    client.sendPc = "sendMessage" =>
        ciphertexts[client.tx.input].key = GroupSecret(client.tx.groupId)

C29_KeyOfSelectedGroup == KeyOfSelectedGroup /\ SealedForTarget

(***************************************************************************)
(* C30.  In the client, once every load in flight has completed (and no    *)
(* batch decrypt is in flight), the displayed member list and message list *)
(* are those of the currently selected group, as the last load started for *)
(* it has read them: neither a load started for a group selected before    *)
(* nor a batch decrypt started before a reload has overwritten them.       *)
(***************************************************************************)
Settled ==
    /\ client.selectedGroupId # -1
    /\ client.loading = {}
    /\ client.pc # "decryptMessages"

AsLoaded(rows) == [i \in 1 .. Len(rows) |-> [rows[i] EXCEPT !.decoded = Undecoded]]

ListsOfSelectedGroup == client.loaded.groupId = client.selectedGroupId

ListsOfLastLoad == AsLoaded(client.messages) = client.loaded.rows

C30_ListsOfSelectedGroup == Settled => (ListsOfSelectedGroup /\ ListsOfLastLoad)

(***************************************************************************)
(* C31.  joinGroup(g) and sendMessage(g) change only group g: the member   *)
(* list, the membership set and the message sequence of every other group, *)
(* and the group count, are unchanged; createGroup changes no existing     *)
(* group's members or messages.                                            *)
(***************************************************************************)
SameGroup(o) ==
    /\ getGroupMembers(o)' = getGroupMembers(o)
    /\ \A a \in Accounts : isGroupMember(o, a)' = isGroupMember(o, a)
    /\ getMessageCount(o)' = getMessageCount(o)
    /\ groupMessages'[o] = groupMessages[o]

\* a step that writes neither array changes no group: the views need not be read
OthersSame(g) ==
    \/ UNCHANGED <<groups, groupMessages>>
    \/ /\ getGroupCount' = getGroupCount
       /\ \A o \in GroupIds \ {g} : SameGroup(o)

\* each implication is written consequent first
JoinChangesOneGroup ==
    last'.op = "joinGroup" =>
        \A g \in GroupIds :
            OthersSame(g) \/ \A c \in Accounts : ~joinGroup(c, g)

SendChangesOneGroup ==
    last'.op = "sendMessage" =>
        \A g \in GroupIds :
            OthersSame(g) \/ \A c \in Accounts : \A input \in Submittable(c) :
                                 ~sendMessage(c, g, input)

CreateChangesNoGroup ==
    last'.op = "createGroup" =>
        \/ \A o \in ExistingGroups : SameGroup(o)
        \/ \A c \in Accounts, name \in Names : ~createGroup(c, name)

C31_OnlyTheGroupChanges ==
    [][JoinChangesOneGroup /\ SendChangesOneGroup /\ CreateChangesNoGroup]_vars

\* A join has just committed on the second group while the first group
\* holds a joiner and a message.
C31_Witness ==
    /\ last = Outcome("joinGroup", "", 0)
    /\ getGroupCount.val = 2
    /\ LastEvent(1).event = "GroupJoined"
    /\ Len(Joiners(0)) >= 1
    /\ getMessageCount(0).val >= 1

(***************************************************************************)
(* C32.  Joining is permissionless: in every reachable state joinGroup(g)  *)
(* by any principal succeeds if and only if g < group count and the        *)
(* principal is not already a member of g; nobody's approval is required,  *)
(* so any principal can obtain the key grant and the full message history  *)
(* of any existing group.                                                  *)
(***************************************************************************)
Joinable(g, c) == g < getGroupCount.val /\ ~isGroupMember(g, c).val

\* the registry of the model takes no transaction beyond MaxEvents events
JoinIsOpen ==
    \A c \in Accounts, g \in ExistingGroups :
        (Joinable(g, c) /\ EventCount < MaxEvents) => ENABLED JoinGroupTx(c, g)

JoinedWithHistory(g, c) ==
    /\ isGroupMember(g, c)' = Returned(TRUE)
    /\ canDecryptGroupKey(g, c)' = Returned(TRUE)
    /\ getMessageCount(g)' = getMessageCount(g)
    /\ \A i \in MessageIndices(g) : canDecryptMessage(g, i, c)' = Returned(TRUE)

JoinSucceedsIffJoinable ==
    last'.op = "joinGroup" =>
        \A c \in Accounts, g \in GroupIds :
            joinGroup(c, g) =>
                /\ last'.err = "" <=> Joinable(g, c)
                /\ Joinable(g, c) => JoinedWithHistory(g, c)

C32_JoinIsPermissionless == []JoinIsOpen /\ [][JoinSucceedsIffJoinable]_vars

\* carol, who neither created the group nor was in it, has just joined a
\* group that holds two members and a message.
C32_Witness ==
    /\ last = Outcome("joinGroup", "", 0)
    /\ \E g \in ExistingGroups :
           /\ LastEvent(g) = GroupJoined(g, "carol")
           /\ Group(g).creator # "carol"
           /\ Len(Group(g).members) = 3
           /\ getMessageCount(g).val >= 1
           /\ canDecryptMessage(g, 0, "carol") = Returned(TRUE)

(***************************************************************************)
(* C33.  The key stream depends only on the numeric value of the group     *)
(* secret: deriveKeyBytes yields the same 32 bytes for every textual form  *)
(* of the same value (the 20-byte 0x form of normalizeGroupKey and the     *)
(* decimal string of the same number), so what one form has sealed the     *)
(* other form opens to the same result.                                    *)
(***************************************************************************)
\* BigInt(groupKey)
SecretValue(groupKey) == StripZeros(groupKey.bytes)

\* a message has been sealed with codec.groupKey
Sealed == codec.pc \in {"sealed", "opened"} /\ codec.cipher.err = ""

C33_KeyStreamOfValue ==
    Sealed =>
        \A k \in GroupKeys :
            SecretValue(k) = SecretValue(codec.groupKey) =>
                /\ deriveKeyBytes(k) = deriveKeyBytes(codec.groupKey)
                /\ openMessage(codec.cipher.val, k)
                       = openMessage(codec.cipher.val, codec.groupKey)

(***************************************************************************)
(* C5.  Codec round trip: for every string m whose UTF-8 encoding has at   *)
(* most 31 bytes and every group secret k, openMessage(sealMessage(m, k),  *)
(* k) returns exactly m.  (Strings holding a lone surrogate have no UTF-8  *)
(* encoding and are left out of the statement.)                            *)
(***************************************************************************)
WellFormed(str) == \A i \in 1 .. Len(str) : ~IsSurrogate(str[i])

C5_RoundTrip ==
    (/\ codec.pc = "opened"
     /\ WellFormed(codec.message)
     /\ Len(TextEncode(codec.message)) <= 31)
        => codec.plain = [err |-> "", val |-> codec.message]

====
